---- MODULE Spec2Model ----
(***************************************************************************)
(* A model of data/process_data.py: the ETL script that merges the         *)
(* messages and categories CSV files (load_data), expands the categories   *)
(* string into one numeric column per category and removes duplicate rows  *)
(* (clean_data), and writes the result to the disaster_messages table of   *)
(* an SQLite file (save_data), driven by main.                             *)
(*                                                                         *)
(* A text is a sequence of one-character strings, so that splitting and    *)
(* indexing are computed as Python computes them.  A data frame is a       *)
(* record [error, columns, rows]: rows is a sequence of tuples, one cell   *)
(* per column; error names the exception when the call raised.             *)
(***************************************************************************)
EXTENDS Integers, Sequences, FiniteSets

VARIABLES
    argc,        \* len(sys.argv) - 1 of the current run
    messages,    \* the file at messages_filepath
    categories,  \* the file at categories_filepath
    pc,          \* position of main
    joined,      \* df after load_data
    expanded,    \* df inside clean_data, before drop_duplicates
    cleaned,     \* df after clean_data
    store,       \* the disaster_messages relation of the database file
    store0,      \* the relation when the current run started
    saved,       \* the last table handed to save_data, over all runs
    stages,      \* the stages the current run has entered, in order
    stdout       \* what the current run has printed

vars == <<argc, messages, categories, pc, joined, expanded, cleaned, store,
          store0, saved, stages, stdout>>

----------------------------------------------------------------------------
(* Bounds of the model *)

MaxRows == 2

----------------------------------------------------------------------------
(* Values *)

\* A missing token as str.split(expand=True) pads it (None / NaN).
None == <<"None">>

\* A missing number (NaN) in a numeric column.
NaN == -1

Frame(cols, rws) == [error |-> "", columns |-> cols, rows |-> rws]

Raise(e) == [error |-> e, columns |-> <<>>, rows |-> <<>>]

NoFrame == Raise("unset")

\* A path at which there is no file.
NoFile == Raise("FileNotFoundError")

\* A database file without a disaster_messages table.
NoTable == Raise("no such table")

ColId == <<"i", "d">>

ColMessage == <<"m", "e", "s", "s", "a", "g", "e">>

ColCategories == <<"c", "a", "t", "e", "g", "o", "r", "i", "e", "s">>

Digits == <<"0", "1", "2", "3", "4", "5", "6", "7", "8", "9">>

----------------------------------------------------------------------------
(* Sequence helpers *)

Range(s) == {s[i] : i \in 1..Len(s)}

\* The least index of x in s, 0 when absent.
IndexOf(s, x) ==
    IF \E i \in 1..Len(s) : s[i] = x
    THEN CHOOSE i \in 1..Len(s) : s[i] = x /\ \A j \in 1..(i - 1) : s[j] # x
    ELSE 0

RECURSIVE Concat(_)
Concat(ss) == IF ss = <<>> THEN <<>> ELSE Head(ss) \o Concat(Tail(ss))

Max(S) == CHOOSE x \in S : \A y \in S : y <= x

\* How many rows of rws equal r.
Count(rws, r) == Cardinality({i \in 1..Len(rws) : rws[i] = r})

\* Python's s.split(sep): the pieces of s between the separators, the empty
\* pieces included; a text without separator is its own single piece.
RECURSIVE split(_, _)
split(s, sep) ==
    LET k == IndexOf(s, sep)
    IN  IF k = 0 THEN <<s>>
        ELSE <<SubSeq(s, 1, k - 1)>> \o split(SubSeq(s, k + 1, Len(s)), sep)

\* The tokens joined by ";", as the categories file writes them.
RECURSIVE Join(_)
Join(ts) ==
    IF Len(ts) = 0 THEN <<>>
    ELSE IF Len(ts) = 1 THEN ts[1]
    ELSE ts[1] \o <<";">> \o Join(Tail(ts))

----------------------------------------------------------------------------
(* load_data *)

\* The column of df named name, one cell per row.
Column(df, name) ==
    LET k == IndexOf(df.columns, name)
    IN  [r \in 1..Len(df.rows) |-> df.rows[r][k]]

\* df without its column k.
DropAt(s, k) == SubSeq(s, 1, k - 1) \o SubSeq(s, k + 1, Len(s))

\* A left join: as the inner join, and a left row without a match is kept,
\* with missing cells for the columns of right.
MergeLeft(left, right) ==
    LET kl == IndexOf(left.columns, ColId)
        kr == IndexOf(right.columns, ColId)
        pairs(i) == [j \in 1..Len(right.rows) |->
                        IF right.rows[j][kr] = left.rows[i][kl]
                        THEN <<left.rows[i] \o DropAt(right.rows[j], kr)>>
                        ELSE <<>>]
        padded(i) == left.rows[i] \o [k \in 1..(Len(right.columns) - 1) |-> None]
    IN  Frame(left.columns \o DropAt(right.columns, kr),
              Concat([i \in 1..Len(left.rows) |->
                        IF Concat(pairs(i)) = <<>> THEN <<padded(i)>>
                        ELSE Concat(pairs(i))]))

\* left.merge(right, how='inner', on='id'): one row per pair of a left row and
\* a right row with equal id, in the order of the left rows; the key column
\* once, then the other columns of left, then those of right.
MergeInner(left, right) ==
    LET kl == IndexOf(left.columns, ColId)
        kr == IndexOf(right.columns, ColId)
        pairs(i) == [j \in 1..Len(right.rows) |->
                        IF right.rows[j][kr] = left.rows[i][kl]
                        THEN <<left.rows[i] \o DropAt(right.rows[j], kr)>>
                        ELSE <<>>]
    IN  Frame(left.columns \o DropAt(right.columns, kr),
              Concat([i \in 1..Len(left.rows) |-> Concat(pairs(i))]))

\* pd.read_csv of both paths, then the merge.  A path without a file raises
\* in read_csv; a file without an id column raises in merge.
load_data(msgs, cats) ==
    IF msgs.error # "" THEN Raise(msgs.error)
    ELSE IF cats.error # "" THEN Raise(cats.error)
    ELSE IF IndexOf(msgs.columns, ColId) = 0 \/ IndexOf(cats.columns, ColId) = 0
         THEN Raise("KeyError")
    ELSE MergeInner(msgs, cats)

----------------------------------------------------------------------------
(* clean_data *)

\* A split that keeps as many columns as the first text has tokens: the tokens
\* beyond it are dropped.
str_split_first_width(col) ==
    LET toks  == [r \in 1..Len(col) |-> split(col[r], ";")]
        width == Len(toks[1])
    IN  [r \in 1..Len(col) |->
            [k \in 1..width |-> IF k <= Len(toks[r]) THEN toks[r][k] ELSE None]]

\* Series.str.split(';', expand=True): one row of tokens per text, as many
\* columns as the longest row has tokens, the shorter rows padded with None.
str_split_expand(col) ==
    LET toks  == [r \in 1..Len(col) |-> split(col[r], ";")]
        width == Max({Len(toks[r]) : r \in 1..Len(col)})
    IN  [r \in 1..Len(col) |->
            [k \in 1..width |-> IF k <= Len(toks[r]) THEN toks[r][k] ELSE None]]

\* The token itself as the column name.
category_colname_whole(col) == col

\* col.split('-')[0]: the text before the first "-", the whole text without one.
category_colname(col) == split(col, "-")[1]

\* Series.astype(str) of one cell.  What it makes of a missing cell depends on
\* the pandas that runs the script: object columns (pandas before 3) turn None
\* into the text 'None'; the str dtype (pandas 3) keeps the cell missing.
astype_str(cell, none_as_text) ==
    IF cell = None
    THEN IF none_as_text THEN <<"N", "o", "n", "e">> ELSE None
    ELSE cell

\* The character after the first "-" (the last one without a "-").
str_after_dash(cell) ==
    IF cell = None \/ cell = <<>> THEN None
    ELSE IF IndexOf(cell, "-") = 0 \/ IndexOf(cell, "-") = Len(cell)
         THEN <<cell[Len(cell)]>>
    ELSE <<cell[IndexOf(cell, "-") + 1]>>

\* Series.str[-1] of one cell: the last character; missing for a missing cell
\* and for the empty text.
str_last(cell) ==
    IF cell = None \/ cell = <<>> THEN None ELSE <<cell[Len(cell)]>>

\* pd.to_numeric(errors='coerce'): nothing raises.
parses_coerce(cell) == TRUE

\* Whether pd.to_numeric parses the cell: a missing cell or one digit.
parses(cell) == cell = None \/ IndexOf(Digits, cell[1]) # 0

\* A conversion that clamps the value to {0, 1}.
to_numeric_clamped(cell) ==
    IF cell = None THEN NaN
    ELSE IF IndexOf(Digits, cell[1]) > 2 THEN 1
    ELSE IndexOf(Digits, cell[1]) - 1

\* pd.to_numeric of a cell it parses.
to_numeric(cell) == IF cell = None THEN NaN ELSE IndexOf(Digits, cell[1]) - 1

\* Lines 36-53: the frame before drop_duplicates, or the exception raised.
clean_expand(df, none_as_text) ==
    IF Len(df.rows) = 0 THEN Raise("IndexError")    \* categories.iloc[0]
    ELSE
    LET kc    == IndexOf(df.columns, ColCategories)
        cats  == str_split_expand(Column(df, ColCategories))
        width == Len(cats[1])
        row   == cats[1]
    IN  IF \E k \in 1..width : row[k] = None
        THEN Raise("AttributeError")                \* None.split('-')
        ELSE
        LET category_colnames == [k \in 1..width |-> category_colname(row[k])]
            last == [r \in 1..Len(cats) |-> [k \in 1..width |->
                        str_last(astype_str(cats[r][k], none_as_text))]]
            \* categories[column] is a frame, without .str, when the name repeats
            repeated(k) == \E j \in 1..width :
                              j # k /\ category_colnames[j] = category_colnames[k]
            unparsed(k) == \E r \in 1..Len(cats) : ~parses(last[r][k])
            bad == {k \in 1..width : repeated(k) \/ unparsed(k)}
        IN  IF bad # {}
            THEN LET k == CHOOSE k \in bad : \A j \in bad : k <= j
                 IN  IF repeated(k) THEN Raise("AttributeError")
                     ELSE Raise("ValueError")
            ELSE Frame(DropAt(df.columns, kc) \o category_colnames,
                       [r \in 1..Len(df.rows) |->
                           DropAt(df.rows[r], kc)
                           \o [k \in 1..width |-> to_numeric(last[r][k])]])

RECURSIVE FirstOccurrences(_, _)
FirstOccurrences(rws, i) ==
    IF i > Len(rws) THEN <<>>
    ELSE (IF \E j \in 1..(i - 1) : rws[j] = rws[i] THEN <<>> ELSE <<rws[i]>>)
         \o FirstOccurrences(rws, i + 1)

RECURSIVE FirstPerId(_, _)
FirstPerId(rws, i) ==
    IF i > Len(rws) THEN <<>>
    ELSE (IF \E j \in 1..(i - 1) : rws[j][1] = rws[i][1] THEN <<>> ELSE <<rws[i]>>)
         \o FirstPerId(rws, i + 1)

\* drop_duplicates(keep=False): the rows that equal no other row.
drop_duplicates_keep_none(rws) ==
    LET single(i) == \A j \in 1..Len(rws) : j # i => rws[j] # rws[i]
        pick == [i \in 1..Len(rws) |-> IF single(i) THEN <<rws[i]>> ELSE <<>>]
    IN  Concat(pick)

\* drop_duplicates(subset=['id']): the first row of each id.
drop_duplicates_by_id(rws) == FirstPerId(rws, 1)

\* DataFrame.drop_duplicates(): the rows that equal no earlier row, in order.
drop_duplicates(rws) == FirstOccurrences(rws, 1)

\* Lines 55-58: df.drop_duplicates() of the expanded frame (an exception
\* raised before it propagates).
clean_dedup(e) ==
    IF e.error # "" THEN e ELSE Frame(e.columns, drop_duplicates(e.rows))

\* clean_data, lines 23-58.
clean_data(df, none_as_text) == clean_dedup(clean_expand(df, none_as_text))

----------------------------------------------------------------------------
(* Inputs *)

Ids == {1, 2}

Messages == {"help", "water"}

TokA1 == <<"a", "-", "1">>
TokA0 == <<"a", "-", "0">>
TokB0 == <<"b", "-", "0">>
TokB1 == <<"b", "-", "1">>
TokC1 == <<"c", "-", "1">>
\* a value outside {0, 1}
TokA2 == <<"a", "-", "2">>
\* no "-" separator
TokA1NoSep == <<"a", "1">>
\* a trailing character that is no digit
TokAx == <<"a", "-", "x">>
\* a value of two characters
TokA10 == <<"a", "-", "1", "0">>
\* two "-"
TokA1Dash0 == <<"a", "-", "1", "-", "0">>

\* Tables of at most MaxRows rows drawn from rowset.
Tables(cols, rowset) ==
    {Frame(cols, rws) : rws \in UNION {[1..n -> rowset] : n \in 0..MaxRows}}

MessageFiles ==
    Tables(<<ColId, ColMessage>>, {<<i, m>> : i \in Ids, m \in Messages})

LoadCatStrings == {Join(<<TokA1, TokB0>>), Join(<<TokB0>>)}

CategoryFiles ==
    Tables(<<ColId, ColCategories>>, {<<i, c>> : i \in Ids, c \in LoadCatStrings})

\* The categories texts clean_data is applied to.
CatStrings ==
    { Join(<<TokA1, TokB0>>),
      Join(<<TokA0, TokB1>>),
      Join(<<TokB0, TokA1>>),
      Join(<<TokA2, TokB1>>),
      Join(<<TokA1>>),
      Join(<<TokA1, TokB0, TokC1>>),
      Join(<<TokA1NoSep, TokB0>>),
      Join(<<TokAx, TokB0>>),
      Join(<<TokA10, TokB0>>),
      Join(<<TokA1Dash0, TokB0>>),
      Join(<<TokA1, TokA0>>),
      Join(<<TokA1, <<>> >>) }

\* The joined tables clean_data is applied to: rows of one id, so that rows
\* can agree on the key and differ in the message, or agree on both.
JoinedTables ==
    Tables(<<ColId, ColMessage, ColCategories>>,
           {<<1, m, c>> : m \in Messages, c \in CatStrings})

\* The runs of the script: the argument counts, the files at the two paths
\* and what the database file holds before the first run.
ArgCounts == {2, 3, 4}

PipelineMessageFiles ==
    { NoFile,
      Frame(<<ColId, ColMessage>>, << <<1, "help">>, <<2, "water">> >>),
      Frame(<<ColId, ColMessage>>, << <<1, "help">>, <<1, "help">> >>) }

PipelineCategoryFiles ==
    { NoFile,
      Frame(<<ColId, ColCategories>>,
            << <<1, Join(<<TokA1, TokB0>>)>>, <<2, Join(<<TokA0, TokB1>>)>> >>),
      Frame(<<ColId, ColCategories>>, << <<1, Join(<<TokA1, TokB0, TokC1>>)>> >>),
      Frame(<<ColId, ColCategories>>, << <<1, Join(<<TokAx, TokB0>>)>> >>),
      Frame(<<ColId, ColCategories>>, << <<3, Join(<<TokA1>>)>> >>),
      Frame(<<ColCategories>>, << <<Join(<<TokA1>>)>> >>) }

\* A relation another program left: other columns than any the script writes.
OldTable == Frame(<<ColId, ColMessage, <<"o", "l", "d">> >>, << <<9, "help", 5>> >>)

InitialStores == {NoTable, OldTable}

----------------------------------------------------------------------------
(* main *)

\* if_exists='append': the rows are added to the relation found.
save_data_append(relation, df) ==
    IF relation.error # "" THEN df
    ELSE Frame(relation.columns, relation.rows \o df.rows)

\* save_data, lines 61-70: df.to_sql('disaster_messages', engine, index=False,
\* if_exists='replace') drops the relation found and creates it from df: the
\* relation afterwards, given the one before.
save_data(relation, df) == Frame(df.columns, df.rows)

\* len(sys.argv) >= 4: three arguments or more.
arity_at_least(n) == n >= 3

\* main, line 74: len(sys.argv) == 4, exactly three arguments.
arity_ok(n) == n = 3

\* The process is started: python process_data.py followed by n arguments, the
\* first two naming the files m and c when there are three.
Invoke ==
    /\ pc \in {"idle", "returned", "raised"}
    /\ \E n \in ArgCounts, m \in PipelineMessageFiles, c \in PipelineCategoryFiles :
          /\ argc' = n
          /\ messages' = IF n = 3 THEN m ELSE NoFrame
          /\ categories' = IF n = 3 THEN c ELSE NoFrame
    /\ pc' = "main"
    /\ joined' = NoFrame
    /\ expanded' = NoFrame
    /\ cleaned' = NoFrame
    /\ store0' = store
    /\ stages' = <<>>
    /\ stdout' = <<>>
    /\ UNCHANGED <<store, saved>>

\* main, lines 74 and 90-96: without exactly three arguments, print the usage
\* text and return.
MainArgs ==
    /\ pc = "main"
    /\ pc' = IF arity_ok(argc) THEN "load" ELSE "returned"
    /\ stdout' = IF arity_ok(argc) THEN stdout ELSE Append(stdout, "Please provide")
    /\ UNCHANGED <<argc, messages, categories, joined, expanded, cleaned, store,
                   store0, saved, stages>>

\* main, lines 78-80: df = load_data(...); an exception ends the run.
MainLoad ==
    /\ pc = "load"
    /\ joined' = load_data(messages, categories)
    /\ pc' = IF joined'.error = "" THEN "clean" ELSE "raised"
    /\ stages' = Append(stages, "Loader")
    /\ stdout' = Append(stdout, "Loading data")
    /\ UNCHANGED <<argc, messages, categories, expanded, cleaned, store, store0, saved>>

\* main, lines 82-83: df = clean_data(df); an exception ends the run.
MainClean ==
    /\ pc = "clean"
    /\ \E none_as_text \in BOOLEAN :
          /\ expanded' = clean_expand(joined, none_as_text)
          /\ cleaned' = clean_data(joined, none_as_text)
    /\ pc' = IF cleaned'.error = "" THEN "save" ELSE "raised"
    /\ stages' = Append(stages, "Cleaner")
    /\ stdout' = Append(stdout, "Cleaning data")
    /\ UNCHANGED <<argc, messages, categories, joined, store, store0, saved>>

\* main, lines 85-88: save_data(df, database_filepath), then return.
MainSave ==
    /\ pc = "save"
    /\ store' = save_data(store, cleaned)
    /\ saved' = cleaned
    /\ pc' = "returned"
    /\ stages' = Append(stages, "Persister")
    /\ stdout' = stdout \o <<"Saving data", "Cleaned data saved">>
    /\ UNCHANGED <<argc, messages, categories, joined, expanded, cleaned, store0>>

Init ==
    /\ argc = 0
    /\ messages = NoFrame
    /\ categories = NoFrame
    /\ pc = "idle"
    /\ joined = NoFrame
    /\ expanded = NoFrame
    /\ cleaned = NoFrame
    /\ store \in InitialStores
    /\ store0 = store
    /\ saved = NoFrame
    /\ stages = <<>>
    /\ stdout = <<>>

Next == Invoke \/ MainArgs \/ MainLoad \/ MainClean \/ MainSave

Spec == Init /\ [][Next]_vars

----------------------------------------------------------------------------
(* load_data applied to every pair of files within the bounds *)

InitLoad ==
    /\ argc = 3
    /\ messages \in MessageFiles
    /\ categories \in CategoryFiles
    /\ pc = "load"
    /\ joined = NoFrame
    /\ expanded = NoFrame
    /\ cleaned = NoFrame
    /\ store = NoTable
    /\ store0 = NoTable
    /\ saved = NoFrame
    /\ stages = <<>>
    /\ stdout = <<>>

SpecLoad == InitLoad /\ [][MainLoad]_vars

----------------------------------------------------------------------------
(* clean_data applied to every joined table within the bounds *)

InitClean ==
    /\ argc = 3
    /\ messages = NoFrame
    /\ categories = NoFrame
    /\ pc = "clean"
    /\ joined \in JoinedTables
    /\ expanded = NoFrame
    /\ cleaned = NoFrame
    /\ store = NoTable
    /\ store0 = NoTable
    /\ saved = NoFrame
    /\ stages = <<"Loader">>
    /\ stdout = <<"Loading data">>

SpecClean == InitClean /\ [][MainClean]_vars

----------------------------------------------------------------------------
(* Vocabulary of the properties *)

\* clean_data has been called and has returned or raised.
CleanRan == cleaned # NoFrame

CleanReturned == cleaned.error = ""

\* The tokens of row r of the joined table.
Tokens(r) == split(joined.rows[r][3], ";")

\* The cell of row r of the expanded frame under the k-th category column.
CatCell(r, k) == expanded.rows[r][2 + k]

DigitValue(c) == IndexOf(Digits, c) - 1

IsDigit(c) == c \in Range(Digits)

LastChar(tok) == tok[Len(tok)]

\* The text before the first "-" of a token.
BeforeDash(tok) ==
    IF IndexOf(tok, "-") = 0 THEN tok ELSE SubSeq(tok, 1, IndexOf(tok, "-") - 1)

Row0Names == [k \in 1..Len(Tokens(1)) |-> BeforeDash(Tokens(1)[k])]

\* name-digit: one "-", a name before it and exactly one digit after it.
WellFormed(tok) ==
    /\ Len(tok) >= 3
    /\ IndexOf(tok, "-") = Len(tok) - 1
    /\ IsDigit(LastChar(tok))

\* Every row on its own is in the documented format, and the names of row 0
\* are distinct.
WellFormedRows ==
    /\ Len(joined.rows) > 0
    /\ \A r \in 1..Len(joined.rows) : \A k \in 1..Len(Tokens(r)) : WellFormed(Tokens(r)[k])
    /\ \A j, k \in 1..Len(Tokens(1)) : j # k => Row0Names[j] # Row0Names[k]

----------------------------------------------------------------------------
(* Properties of load_data, under SpecLoad *)

\* The rows of a file with id i.
WithId(file, i) == {r \in 1..Len(file.rows) : file.rows[r][1] = i}

\* C1: load_data is an inner equi-join on id: every joined row combines a
\* message row and a category row of equal id, each such pair gives exactly one
\* row, and so an id found j times in messages and k times in categories has
\* j*k rows, none when it misses from either file.
C1_InnerJoin ==
    joined.error = "" =>
        /\ joined.columns = <<ColId, ColMessage, ColCategories>>
        /\ \A r \in 1..Len(joined.rows) :
              \E i \in 1..Len(messages.rows), j \in 1..Len(categories.rows) :
                  /\ messages.rows[i][1] = categories.rows[j][1]
                  /\ joined.rows[r] = messages.rows[i] \o <<categories.rows[j][2]>>
        /\ \A i \in 1..Len(messages.rows), j \in 1..Len(categories.rows) :
              messages.rows[i][1] = categories.rows[j][1] =>
                  Count(joined.rows, messages.rows[i] \o <<categories.rows[j][2]>>)
                      = Count(messages.rows, messages.rows[i])
                        * Count(categories.rows, categories.rows[j])
        /\ \A i \in Ids :
              Cardinality(WithId(joined, i))
                  = Cardinality(WithId(messages, i)) * Cardinality(WithId(categories, i))

\* C1: id 1 twice in messages and once in categories gave two rows, and id 2,
\* in categories only, gave none.
C1_Witness ==
    /\ joined.error = ""
    /\ Cardinality(WithId(messages, 1)) = 2
    /\ Cardinality(WithId(categories, 1)) = 1
    /\ Cardinality(WithId(categories, 2)) = 1
    /\ Len(joined.rows) = 2

----------------------------------------------------------------------------
(* Properties of main and save_data, under Spec *)

\* C2: save_data replaces the relation: once the Persister has run, the
\* relation holds the columns and rows of the table just saved, whatever it held
\* before; and over any number of runs it holds the last table saved.
C2_SaveReplaces ==
    /\ "Persister" \in Range(stages) =>
          /\ store.error = ""
          /\ store.columns = cleaned.columns
          /\ store.rows = cleaned.rows
    /\ saved # NoFrame => store = saved

\* C2: a run saved over a relation that had other columns and other rows.
C2_Witness ==
    /\ "Persister" \in Range(stages)
    /\ store0.error = ""
    /\ store0.columns # store.columns
    /\ store0.rows # store.rows
    /\ store = cleaned

\* C3: in every run the stages entered are a prefix of Loader, Cleaner,
\* Persister; the Persister runs, and only then may the store change, only with
\* exactly three arguments and after Loader and Cleaner returned; with another
\* argument count no stage runs, only the usage text is printed and main
\* returns; an exception of Loader or Cleaner ends the run with the store as it
\* was.
C3_StagesInOrder ==
    /\ \E n \in 0..3 : stages = SubSeq(<<"Loader", "Cleaner", "Persister">>, 1, n)
    /\ store # store0 => "Persister" \in Range(stages)
    /\ "Persister" \in Range(stages) =>
          argc = 3 /\ joined.error = "" /\ cleaned.error = ""
    /\ (argc # 3 /\ pc # "idle") =>
          /\ stages = <<>>
          /\ store = store0
          /\ pc \in {"main", "returned"}
          /\ pc = "returned" => stdout = <<"Please provide">>
    /\ joined.error \notin {"", "unset"} =>
          pc = "raised" /\ stages = <<"Loader">> /\ store = store0
    /\ cleaned.error \notin {"", "unset"} =>
          pc = "raised" /\ stages = <<"Loader", "Cleaner">> /\ store = store0
    /\ pc = "raised" => (joined.error # "" \/ cleaned.error \notin {"", "unset"})

\* C3: a run with three arguments went through the three stages and changed the
\* store.
C3_Witness ==
    /\ pc = "returned"
    /\ argc = 3
    /\ stages = <<"Loader", "Cleaner", "Persister">>
    /\ store # store0
    /\ store = cleaned

----------------------------------------------------------------------------
(* Properties of clean_data, under SpecClean *)

Agree(i, j) ==
    LET lastOf(r, k) == IF k > Len(Tokens(r)) \/ Tokens(r)[k] = <<>> THEN ""
                        ELSE LastChar(Tokens(r)[k])
    IN  /\ joined.rows[i][1] = joined.rows[j][1]
        /\ joined.rows[i][2] = joined.rows[j][2]
        /\ \A k \in 1..Len(Tokens(1)) : lastOf(i, k) = lastOf(j, k)

\* C7 as stated, for joined tables in the documented format: a joined table
\* without two identical rows keeps its number of rows.
C7_Original ==
    (CleanReturned /\ WellFormedRows
        /\ \A i, j \in 1..Len(joined.rows) : i # j => joined.rows[i] # joined.rows[j])
        => Len(cleaned.rows) = Len(joined.rows)

\* C7 amended: a table clean_data returns never has more rows than the joined
\* table, and has as many when no two joined rows agree on the other columns
\* and on the last character of every token.
C7_RowCount ==
    CleanReturned =>
        /\ Len(cleaned.rows) <= Len(joined.rows)
        /\ (\A i, j \in 1..Len(joined.rows) : i # j => ~Agree(i, j))
              => Len(cleaned.rows) = Len(joined.rows)

\* C7: two rows that differ only in the message both came out.
C7_Witness ==
    /\ CleanReturned
    /\ Len(joined.rows) = 2
    /\ joined.rows[1][2] # joined.rows[2][2]
    /\ joined.rows[1][3] = joined.rows[2][3]
    /\ Len(cleaned.rows) = 2

\* C8 as stated: clean_data fails whenever some token has a trailing character
\* that is no digit or lacks the "-".
C8_Original ==
    (CleanRan /\ \E r \in 1..Len(joined.rows) : \E k \in 1..Len(Tokens(r)) :
                    LET tok == Tokens(r)[k]
                    IN  tok # <<>> /\ (~IsDigit(LastChar(tok)) \/ IndexOf(tok, "-") = 0))
        => ~CleanReturned

\* C8 amended: clean_data raises, and main stops before the Persister with the
\* store as it was, whenever some token ends in a character that is no digit.
C8_FailsOnNonDigit ==
    (CleanRan /\ \E r \in 1..Len(joined.rows) : \E k \in 1..Len(Tokens(r)) :
                    Tokens(r)[k] # <<>> /\ ~IsDigit(LastChar(Tokens(r)[k])))
        => /\ ~CleanReturned
           /\ pc = "raised"
           /\ store = store0

\* C8: the token a-x made pd.to_numeric raise.
C8_Witness ==
    /\ cleaned.error = "ValueError"
    /\ \E r \in 1..Len(joined.rows) : Tokens(r)[1] = TokAx
    /\ pc = "raised"

C10_Original ==
    CleanReturned =>
        \A r \in 1..Len(joined.rows) : \A k \in 1..Len(Tokens(r)) :
            LET tok == Tokens(r)[k]
                d   == IndexOf(tok, "-")
            IN  (d # 0 /\ d < Len(tok)) => CatCell(r, k) = DigitValue(tok[d + 1])

\* C10 amended: each category cell is the value of the character right after
\* the token's "-" when that character ends the token, and of the token's last
\* character otherwise (a-10 and a-1-0 give 0).
C10_ValueAfterDash ==
    CleanReturned =>
        \A r \in 1..Len(joined.rows) : \A k \in 1..Len(Tokens(r)) :
            LET tok == Tokens(r)[k]
                d   == IndexOf(tok, "-")
            IN  /\ (d # 0 /\ d + 1 = Len(tok)) => CatCell(r, k) = DigitValue(tok[d + 1])
                /\ (d # 0 /\ d + 1 < Len(tok)) =>
                      CatCell(r, k) = DigitValue(LastChar(tok))

\* C10: the token a-10 gave the cell 0.
C10_Witness ==
    /\ CleanReturned
    /\ Tokens(1)[1] = TokA10
    /\ CatCell(1, 1) = 0

====
